---- MODULE Spec2Model ----
(***************************************************************************)
(* A model of the PLC simulator's tag engine (plc-simulator/core):          *)
(* Tag (tag.py), DataBlock (data_block.py) and PLCSimulator.update_loop     *)
(* (plc.py).                                                                *)
(*                                                                          *)
(* Numbers.  Python floats are modelled in fixed point: a float is an       *)
(* integer count of resolution units, and one unit is drift_rate (0.001),   *)
(* so Scale units make 1.0.  Python ints are modelled as integers.          *)
(* A Python value is a record [k, n, s]: its kind, its number, its text.    *)
(***************************************************************************)
EXTENDS Integers, Sequences, FiniteSets, TLC

VARIABLES
    data_blocks,   \* PLCSimulator.data_blocks: the blocks, each with its tags
    clock,         \* the wall clock read by time.time() and the event loop
    last,          \* history: the most recent operation on a tag
    prev,          \* history: the operation before it
    sumDt,         \* history: the sum of the dt passed to update_simulation
    plc,           \* PLCSimulator's own fields
    loop,          \* update_loop: its position and its local variables
    hist           \* history of the loop and of the clients' writes

vars == <<data_blocks, clock, last, prev, sumDt, plc, loop, hist>>

engineVars == <<plc, loop, hist>>

---------------------------------------------------------------------------
(* Program constants *)

\* drift_rate = 0.001 = 1 / drift_rate_den
drift_rate_den == 1000
\* the getter's noise: sigma = abs(_value) * 0.02 = abs(_value) * noise_pct / 100
noise_pct == 2
\* int(value) & 0xFF = int(value) mod byte_mod
byte_mod == 256

\* update_loop sleeps asyncio.sleep(backoff_s) after an error in a tick
backoff_s == 1

\* one resolution unit is drift_rate; Scale units make 1.0
Scale == drift_rate_den

---------------------------------------------------------------------------
(* Bounds of the model *)

\* the largest dt of one update_simulation call, in seconds
MaxDt == 2
\* update_simulation is not called once sumDt has reached this
MaxSumDt == 2
\* the wall clock stops here
MaxClock == 1
\* the noise samples are -MaxZ * sigma, 0 and MaxZ * sigma
MaxZ == 8
\* int("...") and float("...") parse the decimal literals of -MaxLiteral..MaxLiteral
MaxLiteral == 9
\* a configuration has at most this many blocks
MaxBlocks == 3
\* the clock runs up to this while update_loop sleeps after an error
MaxBackoffClock == 2
\* stop() is called at most this often
MaxStops == 2

---------------------------------------------------------------------------
(* Python values *)

PyNone == [k |-> "none", n |-> 0, s |-> ""]
PyBool(b) == [k |-> "bool", n |-> IF b THEN 1 ELSE 0, s |-> ""]
PyInt(i) == [k |-> "int", n |-> i, s |-> ""]
PyFloat(f) == [k |-> "float", n |-> f, s |-> ""]
PyStr(t) == [k |-> "str", n |-> 0, s |-> t]
\* the exception int() and float() raise on text that is no number
ValueError == [k |-> "error", n |-> 0, s |-> "ValueError"]
\* the exception int() and float() raise on None
TypeError == [k |-> "error", n |-> 0, s |-> "TypeError"]

IsError(v) == v.k = "error"
IsNumber(v) == v.k \in {"bool", "int", "float"}

\* the numeric value of a bool, int or float, in resolution units
Num(v) == IF v.k = "float" THEN v.n ELSE v.n * Scale

Abs(i) == IF i >= 0 THEN i ELSE -i

\* int(float): truncation toward zero; f in resolution units, the result an int
Trunc(f) == IF f >= 0 THEN f \div Scale ELSE -((-f) \div Scale)

\* the int or float that a decimal literal denotes
ParseLiteral(t) ==
    IF \E i \in (-MaxLiteral)..MaxLiteral : ToString(i) = t
    THEN PyInt(CHOOSE i \in (-MaxLiteral)..MaxLiteral : ToString(i) = t)
    ELSE ValueError

\* int(value)
int(v) ==
    CASE v.k \in {"bool", "int"} -> PyInt(v.n)
      [] v.k = "float" -> PyInt(Trunc(v.n))
      [] v.k = "str" -> ParseLiteral(v.s)
      [] OTHER -> TypeError

\* float(value)
float(v) ==
    CASE IsNumber(v) -> PyFloat(Num(v))
      [] v.k = "str" ->
            IF IsError(ParseLiteral(v.s)) THEN ValueError
            ELSE PyFloat(Num(ParseLiteral(v.s)))
      [] OTHER -> TypeError

\* bool(value)
bool(v) ==
    CASE IsNumber(v) -> PyBool(v.n # 0)
      [] v.k = "str" -> PyBool(v.s # "")
      [] OTHER -> PyBool(FALSE)

\* the digits after the point in repr(float), for a fraction of fr units
FracDigits(fr) ==
    IF fr % 100 = 0 THEN ToString(fr \div 100)
    ELSE IF fr % 10 = 0
         THEN ToString(fr \div 100) \o ToString((fr \div 10) % 10)
         ELSE ToString(fr \div 100) \o ToString((fr \div 10) % 10)
                  \o ToString(fr % 10)

\* str(value)
str(v) ==
    CASE v.k = "bool" -> PyStr(IF v.n = 1 THEN "True" ELSE "False")
      [] v.k = "int" -> PyStr(ToString(v.n))
      [] v.k = "float" ->
            PyStr((IF v.n < 0 THEN "-" ELSE "")
                  \o ToString(Abs(v.n) \div Scale) \o "."
                  \o FracDigits(Abs(v.n) % Scale))
      [] v.k = "str" -> v
      [] OTHER -> PyStr("None")

---------------------------------------------------------------------------
(* Tag *)

\* Tag._convert_initial: the value in the tag's data type, or the exception
_convert_initial(data_type, value) ==
    CASE data_type = "bool" -> bool(value)
      [] data_type = "int" -> int(value)
      [] data_type = "float" -> float(value)
      [] data_type = "byte" ->
            IF IsError(int(value)) THEN int(value)
            ELSE PyInt(int(value).n % byte_mod)
      [] OTHER -> str(value)

\* Tag.__init__: the tag built from a configuration record at time now
Tag(config, now) ==
    [name |-> config.name,
     address |-> config.address,
     data_type |-> config.type,
     access |-> config.access,
     min_value |-> config.min,
     max_value |-> config.max,
     _value |-> _convert_initial(config.type, config.initial),
     _original_value |-> _convert_initial(config.type, config.initial),
     timestamp |-> now,
     noise_enabled |-> TRUE,
     drift_enabled |-> TRUE,
     opcua_node |-> PyNone,
     opcua_variant_type |-> "none"]

\* max(self.min_value, x) then min(self.max_value, x), x in resolution units
Clamp(tag, x) ==
    LET lo == IF tag.min_value # PyNone /\ ~(x > Num(tag.min_value))
              THEN Num(tag.min_value) ELSE x
    IN  IF tag.max_value # PyNone /\ ~(lo < Num(tag.max_value))
        THEN Num(tag.max_value) ELSE lo

\* a number in resolution units stored in the tag's numeric type
AsType(tag, x) ==
    IF tag.data_type = "int" THEN PyInt(Trunc(x)) ELSE PyFloat(x)

\* max(self.min_value, x) or min(self.max_value, x) raises TypeError when the
\* configured bound is text
ClampRaises(tag) == tag.min_value.k = "str" \/ tag.max_value.k = "str"

\* random.gauss(0, abs(self._value) * 0.02) for the standard-normal sample z
Noise(tag, z) == (z * Abs(Num(tag._value)) * noise_pct) \div 100

\* Tag.value (getter) for the noise sample z
value_get(tag, z) ==
    IF ~tag.noise_enabled THEN tag._value
    ELSE IF tag.data_type \in {"int", "float"}
         THEN AsType(tag, Clamp(tag, Num(tag._value) + Noise(tag, z)))
         ELSE tag._value

\* Tag.value (getter) that keeps the value it returns
value_get_storing(tag, z) == [tag EXCEPT !._value = value_get(tag, z)]

\* Tag.value (getter): the tag after the read; the getter assigns no field
value_get_after(tag, z) == tag

\* Tag.value (getter) raises
value_get_raises(tag) ==
    /\ tag.noise_enabled
    /\ tag.data_type \in {"int", "float"}
    /\ ClampRaises(tag)

\* Tag.value (setter): the exception raised, if any
value_set_raises(tag, new_value) ==
    /\ tag.access = "RW"
    /\ IsError(_convert_initial(tag.data_type, new_value))

\* value_set storing new_value as given, without _convert_initial
value_set_uncoerced(tag, new_value, now) ==
    IF tag.access = "RW" /\ ~value_set_raises(tag, new_value)
    THEN [tag EXCEPT !._value = new_value, !.timestamp = now]
    ELSE tag

\* value_set without the test of self.access
value_set_any_access(tag, new_value, now) ==
    IF ~IsError(_convert_initial(tag.data_type, new_value))
    THEN [tag EXCEPT !._value = _convert_initial(tag.data_type, new_value),
                     !.timestamp = now]
    ELSE tag

\* value_set that sets the timestamp before it converts
value_set_stamping(tag, new_value, now) ==
    IF tag.access # "RW" THEN tag
    ELSE IF value_set_raises(tag, new_value)
    THEN [tag EXCEPT !.timestamp = now]
    ELSE [tag EXCEPT !._value = _convert_initial(tag.data_type, new_value),
                     !.timestamp = now]

\* Tag.value (setter): the tag after the assignment at time now
value_set(tag, new_value, now) ==
    IF tag.access = "RW" /\ ~value_set_raises(tag, new_value)
    THEN [tag EXCEPT !._value = _convert_initial(tag.data_type, new_value),
                     !.timestamp = now]
    ELSE tag

\* drift_rate * dt, in resolution units
DriftUnits(dt) == (dt * Scale) \div drift_rate_den

\* random.uniform(-drift_rate, drift_rate) * dt
DriftSamples(dt) == (-DriftUnits(dt))..DriftUnits(dt)

\* update_simulation without the test of self.access
update_simulation_any_access(tag, dt, d) ==
    IF ~tag.drift_enabled THEN tag
    ELSE IF tag.data_type \in {"int", "float"}
         THEN [tag EXCEPT !._value =
                   AsType(tag, Clamp(tag, Num(tag._value) + d))]
         ELSE tag

\* update_simulation without the clamp to min_value and max_value
update_simulation_unclamped(tag, dt, d) ==
    IF ~tag.drift_enabled \/ tag.access = "RW" THEN tag
    ELSE IF tag.data_type \in {"int", "float"}
         THEN [tag EXCEPT !._value = AsType(tag, Num(tag._value) + d)]
         ELSE tag

\* update_simulation storing an int rounded up instead of int(new_value)
update_simulation_ceiling(tag, dt, d) ==
    IF ~tag.drift_enabled \/ tag.access = "RW" THEN tag
    ELSE IF tag.data_type = "int"
         THEN [tag EXCEPT !._value =
                   PyInt(Trunc(Clamp(tag, Num(tag._value) + d) + Scale - 1))]
         ELSE IF tag.data_type = "float"
         THEN [tag EXCEPT !._value = PyFloat(Clamp(tag, Num(tag._value) + d))]
         ELSE tag

\* Tag.update_simulation(dt) for the drift sample d
update_simulation(tag, dt, d) ==
    IF ~tag.drift_enabled \/ tag.access = "RW" THEN tag
    ELSE IF tag.data_type \in {"int", "float"}
         THEN [tag EXCEPT !._value =
                   AsType(tag, Clamp(tag, Num(tag._value) + d))]
         ELSE tag

\* Tag.update_simulation(dt) raises
update_simulation_raises(tag) ==
    /\ tag.drift_enabled
    /\ tag.access # "RW"
    /\ tag.data_type \in {"int", "float"}
    /\ ClampRaises(tag)

\* Tag.__init__ raises: DataType(config['type']) or
\* AccessType(config['access']) for a value the enum has not, or the
\* conversion of config['initial']
Tag_raises(config) ==
    \/ config.type \notin {"bool", "int", "float", "byte", "string"}
    \/ config.access \notin {"RO", "RW"}
    \/ IsError(_convert_initial(config.type, config.initial))

---------------------------------------------------------------------------
(* DataBlock *)

\* DataBlock.__init__ raises what the Tag of one of its records raises
DataBlock_raises(db_config) ==
    \E i \in 1..Len(db_config.tags) : Tag_raises(db_config.tags[i])

\* DataBlock.__init__: one Tag per configuration record
DataBlock(db_config, now) ==
    [db_number |-> db_config.db_number,
     name |-> db_config.name,
     tags |-> [i \in 1..Len(db_config.tags) |-> Tag(db_config.tags[i], now)]]

\* the first tag of the block whose update_simulation raises, or 0
FirstRaising(db) ==
    IF \E i \in 1..Len(db.tags) : update_simulation_raises(db.tags[i])
    THEN CHOOSE i \in 1..Len(db.tags) :
             /\ update_simulation_raises(db.tags[i])
             /\ \A j \in 1..(i - 1) : ~update_simulation_raises(db.tags[j])
    ELSE 0

\* DataBlock.update_simulation(dt) raises
db_update_simulation_raises(db) == FirstRaising(db) # 0

\* DataBlock.update_simulation(dt): ds[i] is the drift sample of tag i; the
\* tags before the first one that raises are updated
db_update_simulation(db, dt, ds) ==
    [db EXCEPT !.tags =
        [i \in 1..Len(db.tags) |->
            IF FirstRaising(db) = 0 \/ i < FirstRaising(db)
            THEN update_simulation(db.tags[i], dt, ds[i])
            ELSE db.tags[i]]]

\* self.data_blocks[db.db_number] = db: a dict keeps its keys in insertion
\* order, and an assignment to a key it has replaces the value in place
DictPut(blocks, db) ==
    IF \E i \in 1..Len(blocks) : blocks[i].db_number = db.db_number
    THEN [i \in 1..Len(blocks) |->
             IF blocks[i].db_number = db.db_number THEN db ELSE blocks[i]]
    ELSE Append(blocks, db)

\* DataBlock.get_tag_by_address: the index of the first tag whose address is
\* f"DB{self.db_number}.{address}", or 0 for None
get_tag_by_address(db, address) ==
    LET expected == "DB" \o ToString(db.db_number) \o "." \o address
        hits == {i \in 1..Len(db.tags) : db.tags[i].address = expected}
    IN  IF hits = {} THEN 0
        ELSE CHOOSE i \in hits : \A j \in hits : i <= j

RECURSIVE LoadFrom(_, _, _, _)
\* the loop of load_configuration from record i on: the exception of
\* DataBlock(...) ends it, and the blocks put before stay
LoadFrom(blocks, data_blocks_config, i, now) ==
    IF i > Len(data_blocks_config) THEN blocks
    ELSE IF DataBlock_raises(data_blocks_config[i]) THEN blocks
    ELSE LoadFrom(DictPut(blocks, DataBlock(data_blocks_config[i], now)),
                  data_blocks_config, i + 1, now)

\* PLCSimulator.load_configuration raises
load_configuration_raises(data_blocks_config) ==
    \E i \in 1..Len(data_blocks_config) :
        DataBlock_raises(data_blocks_config[i])

\* PLCSimulator.load_configuration
load_configuration(data_blocks_config, now) ==
    LoadFrom(<<>>, data_blocks_config, 1, now)

---------------------------------------------------------------------------
(* PLCSimulator *)

\* PLCSimulator.__init__
NewPLC(update_rate) ==
    [update_rate |-> update_rate, running |-> FALSE, server_running |-> FALSE,
     read_count |-> 0, write_count |-> 0,
     \* stop(): "idle", or "awaiting" the update task; whether a call raised
     stop_pc |-> "idle", stop_raised |-> FALSE]

\* update_loop before it is started
NewLoop ==
    [pc |-> "new", bi |-> 0, ti |-> 0, current_time |-> 0, last_time |-> 0,
     dt |-> 0, update_count |-> 0, corrected_value |-> PyNone, wake_at |-> 0,
     \* update_task.cancel() was called and the task has not run since
     cancel |-> FALSE]

\* PLCSimulator._get_variant_type
_get_variant_type(tag) ==
    CASE tag.data_type = "bool" -> "Boolean"
      [] tag.data_type = "int" -> "Int32"
      [] tag.data_type = "float" -> "Float"
      [] tag.data_type = "byte" -> "Byte"
      [] tag.data_type = "string" -> "String"
      [] OTHER -> "Float"

\* the conversion of _convert_to_correct_type, or the exception it catches
ToVariantType(value, variant_type) ==
    CASE variant_type = "Int32" -> int(value)
      [] variant_type = "Float" -> float(value)
      [] variant_type = "Boolean" -> bool(value)
      [] variant_type = "Byte" ->
            IF IsError(int(value)) THEN int(value)
            ELSE PyInt(int(value).n % byte_mod)
      [] variant_type = "String" -> str(value)
      [] OTHER -> value

\* PLCSimulator._convert_to_correct_type: on an exception the value as given
_convert_to_correct_type(value, variant_type) ==
    IF IsError(ToVariantType(value, variant_type)) THEN value
    ELSE ToVariantType(value, variant_type)

\* PLCSimulator._add_tag_to_server: the tag with its node, which holds the
\* initial value; opcua_node is the value the server's node holds
_add_tag_to_server(tag) ==
    [tag EXCEPT !.opcua_variant_type = _get_variant_type(tag),
                !.opcua_node = _convert_to_correct_type(tag._value,
                                                        _get_variant_type(tag))]

---------------------------------------------------------------------------
(* Configurations and inputs *)

TagConfig(nm, db, ty, acc, lo, hi, init) ==
    [name |-> nm, address |-> "DB" \o ToString(db) \o "." \o nm, type |-> ty,
     access |-> acc, min |-> lo, max |-> hi, initial |-> init]

Speed(db) == TagConfig("Speed", db, "int", "RW", PyInt(0), PyInt(3000), PyInt(1500))
Setpoint(db) ==
    TagConfig("Setpoint", db, "float", "RW", PyInt(0), PyInt(20), PyFloat(10 * Scale))
Temperature(db) ==
    TagConfig("Temperature", db, "float", "RO", PyInt(0), PyInt(150), PyFloat(75 * Scale))
\* a float that starts one resolution unit under its upper bound
Pressure(db) ==
    TagConfig("Pressure", db, "float", "RO", PyInt(0), PyInt(150), PyFloat(150 * Scale - 1))
\* a float whose configured initial value lies above its upper bound
Overheat(db) ==
    TagConfig("Overheat", db, "float", "RO", PyInt(0), PyInt(150), PyFloat(200 * Scale))
Counter(db) == TagConfig("Counter", db, "int", "RO", PyInt(0), PyInt(10), PyInt(5))
Level(db) == TagConfig("Level", db, "float", "RO", PyNone, PyNone, PyFloat(-2500))
Mode(db) == TagConfig("Mode", db, "byte", "RW", PyNone, PyNone, PyInt(300))
Status(db) == TagConfig("Status", db, "byte", "RO", PyNone, PyNone, PyInt(7))
Enabled(db) == TagConfig("Enabled", db, "bool", "RW", PyNone, PyNone, PyBool(TRUE))
Alarm(db) == TagConfig("Alarm", db, "bool", "RO", PyNone, PyNone, PyInt(0))
Label(db) == TagConfig("Label", db, "string", "RW", PyNone, PyNone, PyStr("abc"))
Serial(db) == TagConfig("Serial", db, "string", "RO", PyNone, PyNone, PyFloat(7500))
\* a writable float whose upper bound was configured as text (max: "10")
Gauge(db) ==
    TagConfig("Gauge", db, "float", "RW", PyInt(0), PyStr("10"), PyFloat(5 * Scale))
\* a float whose lower bound was configured as text (min: "0")
Faulty(db) ==
    TagConfig("Faulty", db, "float", "RO", PyStr("0"), PyInt(150), PyFloat(75 * Scale))

\* the configuration records a single-tag block is built from
TagCatalog ==
    {Speed(1), Setpoint(1), Temperature(1), Pressure(1), Overheat(1), Counter(1),
     Level(1), Mode(1), Status(1), Enabled(1), Alarm(1), Label(1), Serial(1)}

\* the values a caller assigns to Tag.value
WriteValues ==
    {PyInt(5000), PyInt(-1), PyInt(10), PyFloat(2700), PyStr("abc"), PyStr("7"),
     PyBool(FALSE)}

\* the standard-normal samples random.gauss draws from
NoiseSamples == {-MaxZ, 0, MaxZ}

\* the engine's configurations: config['plc']
EngineConfigs ==
    {[update_rate |-> 1,
      data_blocks |-> <<[db_number |-> 1, name |-> "MotorControl",
                         tags |-> <<Speed(1)>>],
                        [db_number |-> 2, name |-> "Sensors",
                         tags |-> <<Temperature(2)>>]>>],
     [update_rate |-> 1,
      data_blocks |-> <<[db_number |-> 1, name |-> "Heater",
                         tags |-> <<Setpoint(1)>>],
                        [db_number |-> 2, name |-> "Alarms",
                         tags |-> <<Overheat(2), Label(2)>>]>>],
     [update_rate |-> 1,
      data_blocks |-> <<[db_number |-> 1, name |-> "Drive",
                         tags |-> <<Speed(1), Gauge(1)>>],
                        [db_number |-> 2, name |-> "Probes",
                         tags |-> <<Faulty(2)>>]>>]}

\* the values a remote client writes to a node
ClientValues == {PyInt(1600), PyFloat(12 * Scale), PyStr("xyz")}

NoOp == [op |-> "none", b |-> 0, t |-> 0, arg |-> PyNone, dt |-> 0,
         result |-> PyNone, raised |-> FALSE]

\* what prev keeps of an operation
Brief(o) == [op |-> o.op, b |-> o.b, t |-> o.t, arg |-> o.arg, raised |-> o.raised]

TagAt(b, t) == data_blocks[b].tags[t]

SetTag(b, t, tag) == [data_blocks EXCEPT ![b].tags[t] = tag]

\* the (block, tag) positions of the configured tags
TagIds ==
    UNION {{<<b, t>> : t \in 1..Len(data_blocks[b].tags)} :
              b \in 1..Len(data_blocks)}

\* no tick yet, no client write yet
NewHist ==
    [advanced |-> {},
     written |-> [id \in TagIds |-> PyNone],
     passed |-> [id \in TagIds |-> FALSE],
     \* a tick has begun and has neither ended nor been aborted by an error
     in_tick |-> FALSE,
     \* the tags read for publishing, and those whose publish failed, in the
     \* current tick
     attempted |-> {},
     failed |-> {},
     \* the write_value calls that returned, over all ticks
     published |-> 0,
     \* an error outside the publish step was raised in a tick; a tick began
     \* after one
     errors |-> 0,
     tick_after_error |-> FALSE,
     \* the calls of stop()
     stops |-> 0,
     \* the clock when update_loop started, and for every block the sum of
     \* the dt of its update_simulation calls that returned
     started_at |-> 0,
     sum_dt |-> [b \in 1..Len(data_blocks) |-> 0]]

---------------------------------------------------------------------------
(* The operations of one Tag, called directly *)

\* DataBlock.update_simulation(dt) on block b with the drift samples ds
AdvanceSimulation(b, dt, ds) ==
    /\ sumDt + dt <= MaxSumDt
    /\ data_blocks' = [data_blocks EXCEPT ![b] = db_update_simulation(@, dt, ds)]
    /\ sumDt' = sumDt + dt
    /\ prev' = Brief(last)
    /\ last' = [NoOp EXCEPT !.op = "advance", !.b = b, !.dt = dt]
    /\ UNCHANGED <<clock, engineVars>>

\* tag.value = v
ApplyWrite(b, t, v) ==
    /\ data_blocks' = SetTag(b, t, value_set(TagAt(b, t), v, clock))
    /\ prev' = Brief(last)
    /\ last' = [NoOp EXCEPT !.op = "write", !.b = b, !.t = t, !.arg = v,
                            !.raised = value_set_raises(TagAt(b, t), v)]
    /\ UNCHANGED <<clock, sumDt, engineVars>>

\* tag.value, read with the noise sample z
ObserveValue(b, t, z) ==
    /\ prev' = Brief(last)
    /\ last' = [NoOp EXCEPT !.op = "observe", !.b = b, !.t = t,
                            !.result = value_get(TagAt(b, t), z)]
    /\ data_blocks' = SetTag(b, t, value_get_after(TagAt(b, t), z))
    /\ UNCHANGED <<clock, sumDt, engineVars>>

\* tag.noise_enabled = flag
SetNoiseEnabled(b, t, flag) ==
    /\ TagAt(b, t).noise_enabled # flag
    /\ data_blocks' = SetTag(b, t, [TagAt(b, t) EXCEPT !.noise_enabled = flag])
    /\ prev' = Brief(last)
    /\ last' = [NoOp EXCEPT !.op = "attr", !.b = b, !.t = t]
    /\ UNCHANGED <<clock, sumDt, engineVars>>

\* tag.drift_enabled = flag
SetDriftEnabled(b, t, flag) ==
    /\ TagAt(b, t).drift_enabled # flag
    /\ data_blocks' = SetTag(b, t, [TagAt(b, t) EXCEPT !.drift_enabled = flag])
    /\ prev' = Brief(last)
    /\ last' = [NoOp EXCEPT !.op = "attr", !.b = b, !.t = t]
    /\ UNCHANGED <<clock, sumDt, engineVars>>

\* wall-clock time passes
TimePasses ==
    /\ \/ clock < MaxClock
       \/ loop.pc = "backoff" /\ clock < MaxBackoffClock
    /\ loop.pc \notin {"top", "advance", "publish", "commit"}
    /\ plc.stop_pc = "idle"
    /\ ~loop.cancel
    /\ clock' = clock + 1
    /\ UNCHANGED <<data_blocks, last, prev, sumDt, engineVars>>

\* one block holding one tag of the catalog, just constructed
TagInit ==
    /\ clock = 0
    /\ \E c \in TagCatalog :
          data_blocks = load_configuration(
              <<[db_number |-> 1, name |-> "DB1", tags |-> <<c>>]>>, 0)
    /\ last = NoOp
    /\ prev = Brief(NoOp)
    /\ sumDt = 0
    /\ plc = NewPLC(1)
    /\ loop = NewLoop
    /\ hist = NewHist

TagNext ==
    \/ \E b \in 1..Len(data_blocks), dt \in 0..MaxDt :
          \E ds \in [1..Len(data_blocks[b].tags) -> DriftSamples(dt)] :
              AdvanceSimulation(b, dt, ds)
    \/ \E id \in TagIds, v \in WriteValues : ApplyWrite(id[1], id[2], v)
    \/ \E id \in TagIds, z \in NoiseSamples : ObserveValue(id[1], id[2], z)
    \/ \E id \in TagIds, flag \in BOOLEAN : SetNoiseEnabled(id[1], id[2], flag)
    \/ \E id \in TagIds, flag \in BOOLEAN : SetDriftEnabled(id[1], id[2], flag)
    \/ TimePasses

TagSpec == TagInit /\ [][TagNext]_vars

---------------------------------------------------------------------------
(* PLCSimulator.start, update_loop and stop, with the server's clients *)

tagLog == <<last, prev, sumDt>>

\* the tag update_loop is at
LoopTag == TagAt(loop.bi, loop.ti)

\* the awaits of update_loop: write_value, sleep(update_rate), sleep(1)
LoopAwaits == {"await_write", "sleep", "backoff"}

\* the update task is over: update_loop returned, or an exception left it
LoopOver == {"done", "cancelled"}

\* PLCSimulator.init_opcua_server: every tag gets its node
InitOpcuaServer ==
    /\ loop.pc = "new"
    /\ data_blocks' =
          [b \in 1..Len(data_blocks) |->
              [data_blocks[b] EXCEPT !.tags =
                  [t \in 1..Len(data_blocks[b].tags) |->
                      _add_tag_to_server(data_blocks[b].tags[t])]]]
    /\ plc' = [plc EXCEPT !.server_running = TRUE]
    /\ loop' = [loop EXCEPT !.pc = "ready"]
    /\ UNCHANGED <<clock, hist, tagLog>>

\* PLCSimulator.start: running = True, the update task is created and runs
\* up to its loop
Start ==
    /\ loop.pc = "ready"
    /\ plc' = [plc EXCEPT !.running = TRUE]
    /\ loop' = [loop EXCEPT !.pc = "top", !.last_time = clock]
    /\ hist' = [hist EXCEPT !.started_at = clock]
    /\ UNCHANGED <<data_blocks, clock, tagLog>>

\* update_loop: the head of one iteration; the loop ends, and its locals with
\* it, when running is False
TickBegin ==
    /\ loop.pc = "top"
    /\ IF plc.running
       THEN /\ loop' = [loop EXCEPT !.current_time = clock,
                                   !.dt = clock - loop.last_time,
                                   !.update_count = 0,
                                   !.bi = 1,
                                   !.ti = 0,
                                   !.pc = IF Len(data_blocks) = 0 THEN "commit"
                                          ELSE "advance"]
            /\ hist' = [hist EXCEPT !.advanced = {},
                                   !.in_tick = TRUE,
                                   !.attempted = {},
                                   !.failed = {},
                                   !.tick_after_error = @ \/ hist.errors > 0]
       ELSE /\ loop' = [NewLoop EXCEPT !.pc = "done"]
            /\ UNCHANGED hist
    /\ UNCHANGED <<data_blocks, clock, plc, tagLog>>

\* update_loop: db.update_simulation(dt) for the block the loop is at, with
\* one drift sample for each of its tags.  An exception it raises reaches the
\* outer handler: the tick is given up, the error is logged and the loop
\* sleeps backoff_s before its next iteration.
AdvanceBlock ==
    /\ loop.pc = "advance"
    /\ \E ds \in [1..Len(data_blocks[loop.bi].tags) -> DriftSamples(loop.dt)] :
          data_blocks' = [data_blocks EXCEPT
                             ![loop.bi] = db_update_simulation(@, loop.dt, ds)]
    /\ IF db_update_simulation_raises(data_blocks[loop.bi])
       THEN /\ loop' = [loop EXCEPT !.wake_at = clock + backoff_s,
                                   !.pc = "backoff"]
            /\ hist' = [hist EXCEPT !.in_tick = FALSE, !.errors = 1]
       ELSE /\ loop' = [loop EXCEPT !.ti = 1, !.pc = "publish"]
            /\ hist' = [hist EXCEPT !.advanced = @ \cup {loop.bi},
                                   !.sum_dt[loop.bi] = @ + loop.dt]
    /\ UNCHANGED <<clock, plc, tagLog>>

\* update_loop: tag.value is read with the noise sample z and converted, and
\* write_value is awaited; a tag without a node is passed over, and an
\* exception of the read is logged by the inner handler
PublishBegin(z) ==
    /\ loop.pc = "publish"
    /\ loop.ti <= Len(data_blocks[loop.bi].tags)
    /\ IF LoopTag.opcua_node = PyNone
       THEN /\ loop' = [loop EXCEPT !.ti = @ + 1]
            /\ UNCHANGED hist
       ELSE IF value_get_raises(LoopTag)
       THEN /\ loop' = [loop EXCEPT !.ti = @ + 1]
            /\ hist' = [hist EXCEPT
                           !.attempted = @ \cup {<<loop.bi, loop.ti>>},
                           !.failed = @ \cup {<<loop.bi, loop.ti>>}]
       ELSE /\ loop' = [loop EXCEPT
                           !.corrected_value =
                               _convert_to_correct_type(
                                   value_get(LoopTag, z),
                                   LoopTag.opcua_variant_type),
                           !.pc = "await_write"]
            /\ hist' = [hist EXCEPT
                           !.attempted = @ \cup {<<loop.bi, loop.ti>>},
                           !.passed[<<loop.bi, loop.ti>>] =
                               hist.written[<<loop.bi, loop.ti>>] # PyNone]
    /\ UNCHANGED <<data_blocks, clock, plc, tagLog>>

\* update_loop without the inner handler: the exception of write_value reaches
\* the outer handler and the tick is given up
AfterPublishFailure_aborting(l) ==
    [l EXCEPT !.corrected_value = PyNone,
              !.wake_at = clock + backoff_s,
              !.pc = "backoff"]

\* update_loop: where the loop goes on after write_value raised
AfterPublishFailure(l) ==
    [l EXCEPT !.ti = @ + 1, !.corrected_value = PyNone, !.pc = "publish"]

\* update_loop: write_value returns, or raises and the error is logged by the
\* inner handler
PublishEnd(ok) ==
    /\ loop.pc = "await_write"
    /\ ~loop.cancel
    /\ data_blocks' =
          IF ok THEN SetTag(loop.bi, loop.ti,
                            [LoopTag EXCEPT !.opcua_node = loop.corrected_value])
          ELSE data_blocks
    /\ loop' = IF ok
               THEN [loop EXCEPT !.update_count = @ + 1,
                                 !.ti = @ + 1,
                                 !.corrected_value = PyNone,
                                 !.pc = "publish"]
               ELSE AfterPublishFailure(loop)
    /\ hist' = IF ok
               THEN [hist EXCEPT !.published = @ + 1]
               ELSE [hist EXCEPT !.failed = @ \cup {<<loop.bi, loop.ti>>}]
    /\ UNCHANGED <<clock, plc, tagLog>>

\* update_loop: the tags of the block are done; on to the next block
NextBlock ==
    /\ loop.pc = "publish"
    /\ loop.ti > Len(data_blocks[loop.bi].tags)
    /\ loop' = IF loop.bi < Len(data_blocks)
               THEN [loop EXCEPT !.bi = @ + 1, !.ti = 0, !.pc = "advance"]
               ELSE [loop EXCEPT !.pc = "commit"]
    /\ UNCHANGED <<data_blocks, clock, plc, hist, tagLog>>

\* update_loop: read_count += update_count; last_time = current_time; sleep
TickEnd ==
    /\ loop.pc = "commit"
    /\ plc' = [plc EXCEPT !.read_count = @ + loop.update_count]
    /\ loop' = [loop EXCEPT !.last_time = loop.current_time,
                            !.wake_at = clock + plc.update_rate,
                            !.pc = "sleep"]
    /\ hist' = [hist EXCEPT !.in_tick = FALSE,
                            !.attempted = {},
                            !.failed = {}]
    /\ UNCHANGED <<data_blocks, clock, tagLog>>

\* update_loop: asyncio.sleep(update_rate), or the asyncio.sleep(1) of the
\* outer handler, returns
Wake ==
    /\ loop.pc \in {"sleep", "backoff"}
    /\ ~loop.cancel
    /\ clock >= loop.wake_at
    /\ loop' = [loop EXCEPT !.pc = "top"]
    /\ UNCHANGED <<data_blocks, clock, plc, hist, tagLog>>

\* PLCSimulator.start, finally: the task awaiting start() is cancelled
\* (SimulatorApplication.run); running = False and update_task.cancel()
StartFinally ==
    /\ loop.pc \in LoopAwaits
    /\ plc.running
    /\ plc' = [plc EXCEPT !.running = FALSE]
    /\ loop' = [loop EXCEPT !.cancel = TRUE]
    /\ UNCHANGED <<data_blocks, clock, hist, tagLog>>

\* update_loop where CancelledError is an Exception (as before Python 3.8):
\* at write_value the inner handler logs it and the loop goes on with the
\* next tag
AfterCancel_caught(l) ==
    IF l.pc = "await_write"
    THEN [l EXCEPT !.cancel = FALSE, !.ti = @ + 1, !.corrected_value = PyNone,
                   !.pc = "publish"]
    ELSE [NewLoop EXCEPT !.pc = IF l.pc = "backoff" THEN "cancelled"
                               ELSE "done"]

\* update_loop: CancelledError is raised at the await the task is suspended
\* in.  From write_value and sleep(update_rate) it passes the inner handler
\* (except Exception) and reaches `except asyncio.CancelledError: break`;
\* from the sleep(1) of the outer handler it leaves update_loop.  The locals
\* of update_loop end with it.
AfterCancel(l) ==
    [NewLoop EXCEPT !.pc = IF l.pc = "backoff" THEN "cancelled" ELSE "done"]

\* the cancelled update task runs
LoopCancelled ==
    /\ loop.pc \in LoopAwaits
    /\ loop.cancel
    /\ loop' = AfterCancel(loop)
    /\ UNCHANGED <<data_blocks, clock, plc, hist, tagLog>>

\* PLCSimulator.stop without its `except asyncio.CancelledError: pass`
stop_await_uncaught(loop_pc) == loop_pc = "cancelled"

\* PLCSimulator.stop: `await self.update_task` lets an exception pass
stop_await_raises(loop_pc) == FALSE

\* PLCSimulator.stop, after the update task: server.stop(),
\* server_running = False; nothing of it runs when the await raised
stop_finish(p, raised) ==
    IF raised
    THEN [p EXCEPT !.stop_pc = "idle", !.stop_raised = TRUE]
    ELSE [p EXCEPT !.stop_pc = "idle", !.server_running = FALSE]

\* PLCSimulator.stop while the update task is suspended: running = False,
\* update_task.cancel(), and stop awaits the task
StopBegin ==
    /\ loop.pc \in LoopAwaits
    /\ plc.stop_pc = "idle"
    /\ hist.stops < MaxStops
    /\ plc' = [plc EXCEPT !.running = FALSE, !.stop_pc = "awaiting"]
    /\ loop' = [loop EXCEPT !.cancel = TRUE]
    /\ hist' = [hist EXCEPT !.stops = @ + 1]
    /\ UNCHANGED <<data_blocks, clock, tagLog>>

\* PLCSimulator.stop: the awaited update task is over
StopEnd ==
    /\ plc.stop_pc = "awaiting"
    /\ loop.pc \in LoopOver
    /\ plc' = stop_finish(plc, stop_await_raises(loop.pc))
    /\ UNCHANGED <<data_blocks, clock, loop, hist, tagLog>>

\* PLCSimulator.stop when the update task is over already: cancel() does
\* nothing, the await does not suspend
StopAgain ==
    /\ loop.pc \in LoopOver
    /\ plc.stop_pc = "idle"
    /\ hist.stops < MaxStops
    /\ plc' = stop_finish([plc EXCEPT !.running = FALSE],
                          stop_await_raises(loop.pc))
    /\ hist' = [hist EXCEPT !.stops = @ + 1]
    /\ UNCHANGED <<data_blocks, clock, loop, tagLog>>

\* a remote client writes v, a value of the node's variant type, to the node
\* of a writable tag (set_writable); the server runs while update_loop is
\* suspended in an await.  Nothing passes the write on to the Tag, and nothing
\* counts it.
ClientWrite(b, t, v) ==
    /\ loop.pc \in LoopAwaits
    /\ plc.server_running
    /\ TagAt(b, t).opcua_node # PyNone
    /\ TagAt(b, t).access = "RW"
    /\ ToVariantType(v, TagAt(b, t).opcua_variant_type) = v
    /\ data_blocks' = SetTag(b, t, [TagAt(b, t) EXCEPT !.opcua_node = v])
    /\ hist' = [hist EXCEPT !.written[<<b, t>>] = v,
                            !.passed[<<b, t>>] = FALSE]
    /\ UNCHANGED <<clock, plc, loop, tagLog>>

\* the engine constructed and configured: PLCSimulator(config) and
\* load_configuration(config['plc']['data_blocks'])
Init ==
    /\ clock = 0
    /\ \E config \in EngineConfigs :
          /\ data_blocks = load_configuration(config.data_blocks, 0)
          /\ plc = NewPLC(config.update_rate)
    /\ loop = NewLoop
    /\ hist = NewHist
    /\ last = NoOp
    /\ prev = Brief(NoOp)
    /\ sumDt = 0

Next ==
    \/ InitOpcuaServer
    \/ Start
    \/ TickBegin
    \/ AdvanceBlock
    \/ \E z \in NoiseSamples : PublishBegin(z)
    \/ \E ok \in BOOLEAN : PublishEnd(ok)
    \/ NextBlock
    \/ TickEnd
    \/ Wake
    \/ StartFinally
    \/ LoopCancelled
    \/ StopBegin
    \/ StopEnd
    \/ StopAgain
    \/ \E id \in TagIds, v \in ClientValues : ClientWrite(id[1], id[2], v)
    \/ TimePasses

Spec == Init /\ [][Next]_vars

\* the engine with a configuration whose first block has an int tag: the one
\* whose ticks end in the sleep of update_rate, and the one whose ticks end
\* in the back-off
LiveInit ==
    /\ Init
    /\ data_blocks[1].tags[1].data_type = "int"

\* the event loop runs every task that is ready: the cancelled update task,
\* and stop() once the task it awaits is over
LiveSpec ==
    LiveInit /\ [][Next]_vars /\ WF_vars(LoopCancelled) /\ WF_vars(StopEnd)

---------------------------------------------------------------------------
(* PLCSimulator.load_configuration and DataBlock.get_tag_by_address *)

\* a tag of a type the DataType enum has not
Price(db) ==
    TagConfig("Price", db, "currency", "RO", PyNone, PyNone, PyFloat(2500))

\* a tag of an access the AccessType enum has not
Valve(db) == TagConfig("Valve", db, "bool", "WO", PyNone, PyNone, PyBool(FALSE))

\* the block records configurations are made of: three that construct,
\* two that do not
BlockConfigs ==
    {[db_number |-> 1, name |-> "MotorControl",
      tags |-> <<Speed(1), Temperature(1)>>],
     [db_number |-> 2, name |-> "Counters", tags |-> <<Counter(2)>>],
     [db_number |-> 3, name |-> "Panel", tags |-> <<Label(3), Mode(3)>>],
     [db_number |-> 4, name |-> "Billing", tags |-> <<Level(4), Price(4)>>],
     [db_number |-> 5, name |-> "Valves", tags |-> <<Valve(5)>>]}

\* config['plc']['data_blocks']: up to MaxBlocks block records of different
\* db_number
DataBlocksConfigs ==
    {c \in UNION {[1..n -> BlockConfigs] : n \in 0..MaxBlocks} :
        \A i, j \in 1..Len(c) : i # j => c[i].db_number # c[j].db_number}

\* the addresses looked up: full addresses and bare names, of tags that are
\* configured and of tags that are not
LookupAddresses ==
    {"DB1.Speed", "Speed", "DB3.Mode", "Mode", "DB2.Speed", "DB9.Nothing",
     "Nothing"}

\* PLCSimulator.load_configuration(data_blocks_config) on the engine as
\* constructed
LoadConfiguration(data_blocks_config) ==
    /\ last.op = "none"
    /\ data_blocks' = load_configuration(data_blocks_config, clock)
    /\ last' = [NoOp EXCEPT
                   !.op = "configure",
                   !.arg = PyInt(Len(data_blocks_config)),
                   !.raised = load_configuration_raises(data_blocks_config)]
    /\ UNCHANGED <<clock, prev, sumDt, engineVars>>

\* data_blocks[b].get_tag_by_address(address): last.t is the tag returned, 0
\* for None
Lookup(b, address) ==
    /\ last.op # "none"
    /\ b \in 1..Len(data_blocks)
    /\ last' = [NoOp EXCEPT
                   !.op = "lookup",
                   !.b = b,
                   !.t = get_tag_by_address(data_blocks[b], address),
                   !.arg = PyStr(address)]
    /\ UNCHANGED <<data_blocks, clock, prev, sumDt, engineVars>>

\* PLCSimulator.__init__: no blocks yet
ConfigInit ==
    /\ clock = 0
    /\ data_blocks = <<>>
    /\ plc = NewPLC(1)
    /\ loop = NewLoop
    /\ hist = NewHist
    /\ last = NoOp
    /\ prev = Brief(NoOp)
    /\ sumDt = 0

ConfigNext ==
    \/ \E data_blocks_config \in DataBlocksConfigs :
          LoadConfiguration(data_blocks_config)
    \/ \E b \in 1..MaxBlocks, address \in LookupAddresses : Lookup(b, address)

ConfigSpec == ConfigInit /\ [][ConfigNext]_vars

---------------------------------------------------------------------------
(* Properties of the Tag operations, checked under TagSpec *)

IsNumeric(tag) == tag.data_type \in {"int", "float"}

HasBounds(tag) == tag.min_value # PyNone \/ tag.max_value # PyNone

\* min <= x <= max for the bounds that are set, x in resolution units
InBounds(tag, x) ==
    /\ tag.min_value # PyNone => Num(tag.min_value) <= x
    /\ tag.max_value # PyNone => x <= Num(tag.max_value)

\* the stored value is a value of the tag's data type
Representable(tag) ==
    CASE tag.data_type = "bool" -> tag._value.k = "bool" /\ tag._value.n \in {0, 1}
      [] tag.data_type = "int" -> tag._value.k = "int"
      [] tag.data_type = "float" -> tag._value.k = "float"
      [] tag.data_type = "byte" ->
            tag._value.k = "int" /\ tag._value.n \in 0..(byte_mod - 1)
      [] OTHER -> tag._value.k = "str"

LastTag == TagAt(last.b, last.t)

\* C1: in every reachable state each tag's _value is representable in its data
\* type and, when bounds are set, lies within them.
C1_ValueRepresentableAndBounded ==
    \A id \in TagIds :
        /\ Representable(TagAt(id[1], id[2]))
        /\ IsNumeric(TagAt(id[1], id[2])) =>
               InBounds(TagAt(id[1], id[2]), Num(TagAt(id[1], id[2])._value))

\* C2: every observation of a read-only int or float tag with bounds returns a
\* value within the bounds.
C2_ObservedWithinBounds ==
    (/\ last.op = "observe"
     /\ LastTag.access = "RO"
     /\ IsNumeric(LastTag)
     /\ HasBounds(LastTag))
        => InBounds(LastTag, Num(last.result))

\* C3: a write to a read-write tag with bounds of a value above max stores
\* exactly max, and of a value below min stores exactly min.
C3_WriteStoresClamped ==
    (/\ last.op = "write"
     /\ ~last.raised
     /\ LastTag.access = "RW"
     /\ IsNumeric(LastTag)
     /\ HasBounds(LastTag))
        => LET v == Num(_convert_initial(LastTag.data_type, last.arg))
           IN  /\ (LastTag.max_value # PyNone /\ v > Num(LastTag.max_value))
                      => Num(LastTag._value) = Num(LastTag.max_value)
               /\ (LastTag.min_value # PyNone /\ v < Num(LastTag.min_value))
                      => Num(LastTag._value) = Num(LastTag.min_value)

\* an observation with noise disabled that directly follows an accepted write,
\* within the bounds, to the same read-write tag
ObservedRightAfterWrite ==
    /\ last.op = "observe"
    /\ prev.op = "write"
    /\ prev.b = last.b
    /\ prev.t = last.t
    /\ ~prev.raised
    /\ LastTag.access = "RW"
    /\ ~LastTag.noise_enabled
    /\ IsNumeric(LastTag) =>
           InBounds(LastTag, Num(_convert_initial(LastTag.data_type, prev.arg)))

\* C4: a write of a value within the bounds to a read-write tag, directly
\* followed by an observation with noise disabled, returns the value coerced to
\* the tag's data type.
C4_WriteThenObserveRoundTrip ==
    ObservedRightAfterWrite
        => last.result = _convert_initial(LastTag.data_type, prev.arg)

\* C4 happens: a float written to a bounded int tag after a tick, read back
\* truncated
C4_Witness ==
    /\ ObservedRightAfterWrite
    /\ HasBounds(LastTag)
    /\ sumDt > 0
    /\ prev.arg.k = "float"
    /\ last.result.k = "int"

\* C5: the _value of a read-write tag changes only by an accepted write to
\* that tag; update_simulation never changes it.
C5_WritableTagChangesOnlyByWrite ==
    [][\A id \in TagIds :
          (/\ TagAt(id[1], id[2]).access = "RW"
           /\ TagAt(id[1], id[2])'._value # TagAt(id[1], id[2])._value)
              => /\ last'.op = "write"
                 /\ last'.b = id[1]
                 /\ last'.t = id[2]
                 /\ ~last'.raised]_vars

\* C5 happens: a tick of positive length on a numeric read-write tag with
\* drift enabled
C5_Witness ==
    /\ last.op = "advance"
    /\ last.dt > 0
    /\ \E t \in 1..Len(data_blocks[last.b].tags) :
          /\ TagAt(last.b, t).access = "RW"
          /\ IsNumeric(TagAt(last.b, t))
          /\ TagAt(last.b, t).drift_enabled

\* C6: a write to a read-only tag raises nothing and leaves the tag, its
\* _value and timestamp included, as it was.
C6_ReadOnlyWriteIsNoOp ==
    [][\A id \in TagIds :
          (/\ last'.op = "write"
           /\ last'.b = id[1]
           /\ last'.t = id[2]
           /\ TagAt(id[1], id[2]).access = "RO")
              => /\ ~last'.raised
                 /\ TagAt(id[1], id[2])' = TagAt(id[1], id[2])]_vars

\* C6 happens: text that is no number was written to a read-only numeric tag
\* after the clock moved on from the tag's timestamp
C6_Witness ==
    /\ last.op = "write"
    /\ LastTag.access = "RO"
    /\ IsNumeric(LastTag)
    /\ IsError(_convert_initial(LastTag.data_type, last.arg))
    /\ clock > LastTag.timestamp

\* C7: update_simulation(0) changes no tag's _value.
C7_ZeroTickIsIdentity ==
    [][(last'.op = "advance" /\ last'.dt = 0)
          => \A id \in TagIds :
                 TagAt(id[1], id[2])'._value = TagAt(id[1], id[2])._value]_vars

\* a read-only float tag whose initial value lies within its bounds
DriftingFloat(tag) ==
    /\ tag.access = "RO"
    /\ tag.data_type = "float"
    /\ InBounds(tag, Num(tag._original_value))

\* C8: a read-only float tag that started within its bounds stays within
\* drift_rate * (the sum of the dt so far) of its initial value, and within
\* its bounds.
C8_BoundedDrift ==
    \A id \in TagIds :
        DriftingFloat(TagAt(id[1], id[2])) =>
            /\ Abs(Num(TagAt(id[1], id[2])._value)
                     - Num(TagAt(id[1], id[2])._original_value))
                   <= DriftUnits(sumDt)
            /\ InBounds(TagAt(id[1], id[2]), Num(TagAt(id[1], id[2])._value))

\* C8 happens: after two ticks a bounded tag has drifted as far as it may
C8_Witness ==
    /\ sumDt > 1
    /\ last.op = "advance"
    /\ prev.op = "advance"
    /\ \E id \in TagIds :
          /\ DriftingFloat(TagAt(id[1], id[2]))
          /\ HasBounds(TagAt(id[1], id[2]))
          /\ Abs(Num(TagAt(id[1], id[2])._value)
                   - Num(TagAt(id[1], id[2])._original_value))
                 = DriftUnits(sumDt)

\* C21: a write to a read-write tag of a value that _convert_initial cannot
\* convert raises, and leaves _value, timestamp and every other field of the
\* tag as they were.
C21_FailedWriteIsDropped ==
    [][(/\ last'.op = "write"
        /\ prev' = Brief(last)
        /\ TagAt(last'.b, last'.t).access = "RW"
        /\ IsError(_convert_initial(TagAt(last'.b, last'.t).data_type,
                                    last'.arg)))
          => /\ last'.raised
             /\ data_blocks' = data_blocks]_vars

\* C21 happens: a write that raised, later than the tag's timestamp, on a tag
\* that holds an earlier write
C21_Witness ==
    /\ last.op = "write"
    /\ last.raised
    /\ LastTag.access = "RW"
    /\ clock > LastTag.timestamp
    /\ LastTag._value # LastTag._original_value

\* a read-only int tag with drift enabled whose value is positive and
\* within its bounds
DriftingPositiveInt(tag) ==
    /\ tag.access = "RO"
    /\ tag.data_type = "int"
    /\ tag.drift_enabled
    /\ tag._value.n > 0
    /\ InBounds(tag, Num(tag._value))

\* C24: a tick leaves the value v of such a tag at v or at v - 1, never
\* above v.
C24_IntDriftNeverIncreases ==
    [][(last'.op = "advance" /\ prev' = Brief(last))
          => \A id \in TagIds :
                 DriftingPositiveInt(TagAt(id[1], id[2])) =>
                     data_blocks'[id[1]].tags[id[2]]._value.n \in
                         {TagAt(id[1], id[2])._value.n - 1,
                          TagAt(id[1], id[2])._value.n}]_vars

\* C24 happens: two ticks in a row have taken such a tag two below its
\* initial value
C24_Witness ==
    /\ last.op = "advance"
    /\ prev.op = "advance"
    /\ \E id \in TagIds :
          /\ DriftingPositiveInt(TagAt(id[1], id[2]))
          /\ TagAt(id[1], id[2])._value.n =
                 TagAt(id[1], id[2])._original_value.n - 2

\* C19: a step that observes a tag leaves every field of every tag as it was.
C19_ObserveIsPureRead ==
    [][(last'.op = "observe" /\ prev' = Brief(last))
          => data_blocks' = data_blocks]_vars

\* C19 happens: a second observation in a row of a tag with noise enabled
\* returned a value that is not the stored one
C19_Witness ==
    /\ last.op = "observe"
    /\ prev.op = "observe"
    /\ prev.b = last.b
    /\ prev.t = last.t
    /\ LastTag.noise_enabled
    /\ last.result # LastTag._value

---------------------------------------------------------------------------
(* Properties of update_loop, checked under Spec *)

\* C9: once a tick has read a read-write tag after a client's accepted write
\* to it, the tag's _value is the written value, coerced to the tag's type:
\* the tick publishes from the written value, not from the value before it.
C9_ClientWriteTakesEffectByNextTick ==
    \A id \in TagIds :
        hist.passed[id] =>
            TagAt(id[1], id[2])._value =
                _convert_initial(TagAt(id[1], id[2]).data_type, hist.written[id])

\* C10: whenever a tag is being published, every block has been advanced in
\* the current tick.
C10_AllBlocksAdvancedBeforePublish ==
    loop.pc = "await_write" => hist.advanced = 1..Len(data_blocks)

\* C11: the loop never ends in the middle of a tick: when the update task is
\* over, no tick is left begun and unfinished.
C11_LoopNeverEndsMidTick ==
    loop.pc \in LoopOver => ~hist.in_tick

\* the tags that have a node
Published == {id \in TagIds : TagAt(id[1], id[2]).opcua_node # PyNone}

\* C12: a write_value that raises leaves the loop in the same tick at the next
\* tag; a tick that reaches its end has read every tag that has a node and
\* counts all of them but the failed ones; and from there the time cursor
\* is advanced and the sleep entered.
C12_PublishFailureIsIsolated ==
    /\ [][(loop.pc = "await_write" /\ hist'.failed # hist.failed)
             => /\ loop'.pc = "publish"
                /\ loop'.bi = loop.bi
                /\ loop'.ti = loop.ti + 1
                /\ loop'.update_count = loop.update_count
                /\ hist'.in_tick
                /\ plc' = plc]_vars
    /\ [](loop.pc = "commit"
             => /\ hist.attempted = Published
                /\ loop.update_count =
                       Cardinality(hist.attempted \ hist.failed))
    /\ [][loop.pc = "commit"
             => /\ loop'.pc = "sleep"
                /\ loop'.last_time = loop.current_time
                /\ plc'.running = plc.running]_vars

\* C12 happens: a tick at its end in which a publish failed and a tag after
\* the failed one was published
C12_Witness ==
    /\ loop.pc = "commit"
    /\ \E f \in hist.failed, a \in hist.attempted \ hist.failed :
          a[1] > f[1] \/ (a[1] = f[1] /\ a[2] > f[2])

\* C13: no tick begins after an error that was raised in a tick outside the
\* publish step.
C13_NoTickAfterFatalError ==
    ~hist.tick_after_error

C17_WriteCountCountsWrites ==
    (\E id \in TagIds : hist.written[id] # PyNone) => plc.write_count >= 1

\* C18: while the loop sleeps between two ticks, and when it is over,
\* read_count is the number of write_value calls that have returned.
C18_ReadCountCountsPublishes ==
    loop.pc \in {"sleep", "backoff"} \cup LoopOver
        => plc.read_count = hist.published

\* C22: a call of stop that awaits the update task returns, with the task
\* over; and once a call of stop has returned the task is over, so that
\* nothing is published any more.
C22_StopTerminatesLoop ==
    /\ (plc.stop_pc = "awaiting")
           ~> (plc.stop_pc = "idle" /\ loop.pc \in LoopOver)
    /\ []((hist.stops >= 1 /\ plc.stop_pc = "idle") => loop.pc \in LoopOver)

\* C22 happens: stop has returned once; it cancelled the loop in a tick, after
\* a publish, while the next write_value was awaited
C22_Witness ==
    /\ hist.stops = 1
    /\ plc.stop_pc = "idle"
    /\ loop.pc = "done"
    /\ hist.in_tick
    /\ hist.published > plc.read_count

\* C23: for every block, the dt of its update_simulation calls since
\* update_loop started add up to no more than the time that has passed since.
C23_TimeCountedOnce ==
    \A b \in 1..Len(data_blocks) :
        hist.sum_dt[b] <= clock - hist.started_at

---------------------------------------------------------------------------
(* Properties of load_configuration and get_tag_by_address, checked under
   ConfigSpec *)

\* C14: after load_configuration the engine has no block when it raised, and
\* every configured block when it did not.
C14_ConfigureAllOrNothing ==
    last.op = "configure" =>
        Len(data_blocks) = IF last.raised THEN 0 ELSE last.arg.n

\* the tags of the block looked in whose address field is the address asked
\* for
AddressMatches ==
    {t \in 1..Len(data_blocks[last.b].tags) :
        data_blocks[last.b].tags[t].address = last.arg.s}

\* C15: a lookup returns a tag whose address field is the address asked for
\* when the block has one, and None when it has none.
C15_LookupByFullAddress ==
    last.op = "lookup" =>
        IF AddressMatches = {} THEN last.t = 0 ELSE last.t \in AddressMatches

====
